---- MODULE Spec2Model ----
(***************************************************************************)
(* Model of graph_wiz.py: the dependency-graph walker                      *)
(* (build_graph_from_test), the reverse-dependency search                  *)
(* (find_reverse_dependencies) and the control flow of main that connects  *)
(* them.  Package names are strings, modelled as sequences of code points, *)
(* so that the substring filter and the lexicographic order of sorted()    *)
(* are computed and not assumed.                                           *)
(***************************************************************************)
EXTENDS Integers, Sequences, FiniteSets, TLC

\* ---------------------------------------------------------------- bounds
\* largest number of dependency entries (edges) in an input graph / edge set
MaxEdges == 4

\* ------------------------------------------------------------ name space
A == <<65>>
B == <<66>>
AB == <<65, 66>>
Nodes == {A, B, AB}
EmptyStr == <<>>
Filters == {EmptyStr, A, B, AB}

\* ------------------------------------------------------- string helpers
\* Python `s in u` for strings
Contains(s, u) ==
    \E i \in 1..(Len(u) - Len(s) + 1) : SubSeq(u, i, i + Len(s) - 1) = s

\* mutant: the filter only looks at the beginning of the name (startswith)
MatchesPrefix(s, u) ==
    s # EmptyStr /\ Len(s) <= Len(u) /\ SubSeq(u, 1, Len(s)) = s

\* `ignore_substr and ignore_substr in u`
Matches(s, u) ==
    s # EmptyStr /\ Contains(s, u)

\* Python string comparison s < t (code point lexicographic, prefix first)
LexLess(s, t) ==
    \E i \in 1..Len(t) :
        /\ \A j \in 1..(i - 1) : j <= Len(s) /\ s[j] = t[j]
        /\ (i > Len(s) \/ s[i] < t[i])

RECURSIVE SortedSeq(_)
\* sorted(S) for a set of strings
SortedSeq(S) ==
    IF S = {} THEN <<>>
    ELSE LET m == CHOOSE x \in S : \A y \in S \ {x} : LexLess(x, y)
         IN  <<m>> \o SortedSeq(S \ {m})

\* graph.get(u, set())
Deps(g, u) == IF u \in DOMAIN g THEN g[u] ELSE {}

RECURSIVE SumDeps(_, _)
SumDeps(g, K) ==
    IF K = {} THEN 0
    ELSE LET k == CHOOSE x \in K : TRUE
         IN  Cardinality(g[k]) + SumDeps(g, K \ {k})

\* the adjacency maps load_test_graph can return, within the bound
TestGraphs ==
    UNION { {g \in [K -> SUBSET Nodes] : SumDeps(g, K) <= MaxEdges}
            : K \in SUBSET Nodes }

\* the edge sets a caller can pass, within the bound
EdgeSets == {E \in SUBSET (Nodes \X Nodes) : Cardinality(E) <= MaxEdges}

\* ------------------------------------------------- main, lines 477..487
\* mutant: the dependency side of an entry is not filtered
EdgesAllNoDepFilter(g, f) ==
    {<<u, v>> \in Nodes \X Nodes :
        u \in DOMAIN g /\ ~Matches(f, u) /\ v \in g[u]}

EdgesAll(g, f) ==
    {<<u, v>> \in Nodes \X Nodes :
        u \in DOMAIN g /\ ~Matches(f, u) /\ v \in g[u] /\ ~Matches(f, v)}

NodesAll(g, f) ==
    {u \in DOMAIN g : ~Matches(f, u)}
      \cup {v \in Nodes : \E u \in DOMAIN g :
                ~Matches(f, u) /\ v \in g[u] /\ ~Matches(f, v)}

\* ------------------------------------------------ walker helpers (dfs)
InSeq(x, s) == \E i \in 1..Len(s) : s[i] = x

\* mutant: off by one, the slice starts after the re-entered node
PathIndexNext(ps, u) ==
    1 + (CHOOSE i \in 1..Len(ps) : ps[i] = u /\ \A j \in 1..(i - 1) : ps[j] # u)

\* path_stack.index(u)
PathIndex(ps, u) ==
    CHOOSE i \in 1..Len(ps) : ps[i] = u /\ \A j \in 1..(i - 1) : ps[j] # u

\* mutant: the whole path is recorded, not the slice from the re-entered node
CycleOfWholePath(ps, u) == ps \o <<u>>

\* path_stack[idx:] + [u]
CycleOf(ps, u) == SubSeq(ps, PathIndex(ps, u), Len(ps)) \o <<u>>

\* mutant: the path stack is never popped
PopPathKeep(ps) == ps

\* path_stack.pop()
PopPath(ps) == SubSeq(ps, 1, Len(ps) - 1)

\* mutant: the visited test comes before the path test
EnterCaseVisitedFirst(u, ign, ps, vis) ==
    IF Matches(ign, u) THEN "filtered"
    ELSE IF u \in vis THEN "visited"
    ELSE IF InSeq(u, ps) THEN "cycle"
    ELSE "expand"

\* the if-chain at the head of dfs
EnterCase(u, ign, ps, vis) ==
    IF Matches(ign, u) THEN "filtered"
    ELSE IF InSeq(u, ps) THEN "cycle"
    ELSE IF u \in vis THEN "visited"
    ELSE "expand"

\* ----------------------------------- find_reverse_dependencies helpers
\* mutant: the map is built in the forward direction
ForwardGraph(E, extra) ==
    [n \in {e[1] : e \in E} \cup {e[2] : e \in E} \cup extra |->
        {e[2] : e \in {x \in E : x[1] = n}}]

\* the reverse_graph dictionary after lines 374..380
ReverseGraph(E, extra) ==
    [n \in {e[1] : e \in E} \cup {e[2] : e \in E} \cup extra |->
        {e[1] : e \in {x \in E : x[2] = n}}]

\* mutant: the target is left in the result
DiscardNothing(S, t) == S

\* visited.discard(target)
Discard(S, t) == S \ {t}

\* ---------------------------------------------------------------- state
VARIABLES
    pc,             \* position: idle, load, walk, print, reverse, exit, returned
    caller,         \* who called find_reverse_dependencies: main or direct
    package_name,   \* args.package_name
    filter,         \* args.filter
    test_file,      \* args.test_file is set
    repo,           \* args.repo is set
    repo_deps,      \* direct dependencies declared by the repository's manifest
    bound,          \* local names of main that have been assigned
    test_graph,     \* main: test_graph
    start,          \* main: start
    nodes,          \* main: nodes
    nodes_all,      \* main: nodes_all
    edges_all,      \* main: edges_all
    reverse_target, \* args.reverse_target ("" when not given)
    reverse_set,    \* main: reverse_set / the value find_reverse_dependencies returns
    exit_status,    \* process exit status, -1 while running
    raised,         \* name of the exception that ended the run, "" if none
    visited,        \* build_graph_from_test: visited
    edges,          \* build_graph_from_test: edges
    cycles,         \* build_graph_from_test: cycles
    path_stack,     \* build_graph_from_test: path_stack
    wstack,         \* activation records of dfs: node and the rest of its for loop
    wcall,          \* <<u>> while a call dfs(u) has been made and not yet entered
    r_target,       \* find_reverse_dependencies: target
    r_edges,        \* find_reverse_dependencies: edges
    r_extra,        \* find_reverse_dependencies: extra_nodes
    reverse_graph,  \* find_reverse_dependencies: reverse_graph
    rvisited,       \* find_reverse_dependencies: visited
    rstack          \* activation records of the inner dfs

argVars == <<package_name, filter, test_file, repo, repo_deps>>
mainVars == <<bound, test_graph, start, nodes, nodes_all, edges_all>>
walkVars == <<visited, edges, cycles, path_stack, wstack, wcall>>
revVars == <<r_target, r_edges, r_extra, reverse_graph, rvisited, rstack>>
vars == <<pc, caller, argVars, mainVars, reverse_target, reverse_set,
          exit_status, raised, walkVars, revVars>>

EmptyGraph == [n \in {} |-> {}]

Init ==
    /\ pc = "idle"
    /\ caller = ""
    /\ package_name = EmptyStr
    /\ filter = EmptyStr
    /\ test_file = FALSE
    /\ repo = FALSE
    /\ repo_deps = {}
    /\ bound = {}
    /\ test_graph = EmptyGraph
    /\ start = EmptyStr
    /\ nodes = {}
    /\ nodes_all = {}
    /\ edges_all = {}
    /\ reverse_target = EmptyStr
    /\ reverse_set = {}
    /\ exit_status = -1
    /\ raised = ""
    /\ visited = {}
    /\ edges = {}
    /\ cycles = <<>>
    /\ path_stack = <<>>
    /\ wstack = <<>>
    /\ wcall = <<>>
    /\ r_target = EmptyStr
    /\ r_edges = {}
    /\ r_extra = {}
    /\ reverse_graph = EmptyGraph
    /\ rvisited = {}
    /\ rstack = <<>>

\* sys.exit(2) through error(), after an exception or a usage error
ErrorExit(exc) ==
    /\ pc' = "exit"
    /\ exit_status' = 2
    /\ raised' = exc

\* ------------------------------------------------- main, lines 461..470
\* neither --test-file nor --repo: error("Either --repo or --test-file ...")
MainNoSource ==
    /\ pc = "idle"
    /\ \E p \in Nodes, f \in Filters :
          /\ package_name' = p
          /\ filter' = f
    /\ test_file' = FALSE
    /\ repo' = FALSE
    /\ ErrorExit("")
    /\ UNCHANGED <<caller, repo_deps, mainVars, reverse_target, reverse_set,
                   walkVars, revVars>>

\* --test-file given (with or without --repo): go on to load the file
MainTestFile ==
    /\ pc = "idle"
    /\ \E p \in Nodes, f \in Filters, r \in BOOLEAN :
          /\ package_name' = p
          /\ filter' = f
          /\ repo' = r
    /\ test_file' = TRUE
    /\ pc' = "load"
    /\ UNCHANGED <<caller, repo_deps, mainVars, reverse_target, reverse_set,
                   exit_status, raised, walkVars, revVars>>

\* --repo only: the `if args.test_file:` block is skipped, nothing is built
MainRepoOnly ==
    /\ pc = "idle"
    /\ \E p \in Nodes, f \in Filters, d \in SUBSET Nodes :
          /\ package_name' = p
          /\ filter' = f
          /\ repo_deps' = d
    /\ test_file' = FALSE
    /\ repo' = TRUE
    /\ pc' = "print"
    /\ UNCHANGED <<caller, mainVars, reverse_target, reverse_set,
                   exit_status, raised, walkVars, revVars>>

\* ------------------------------------------------- main, lines 471..488
\* load_test_graph raises: error("Failed to load test graph: ...")
LoadFail ==
    /\ pc = "load"
    /\ ErrorExit("RuntimeError")
    /\ UNCHANGED <<caller, argVars, mainVars, reverse_target, reverse_set,
                   walkVars, revVars>>

\* the file loads; edges_all and nodes_all are collected and
\* build_graph_from_test(start, test_graph, args.filter) is entered
LoadTestGraph ==
    /\ pc = "load"
    /\ \E g \in TestGraphs :
          /\ test_graph' = g
          /\ edges_all' = EdgesAll(g, filter)
          /\ nodes_all' = NodesAll(g, filter)
    /\ start' = package_name
    /\ bound' = {"start"}
    /\ visited' = {}
    /\ edges' = {}
    /\ cycles' = <<>>
    /\ path_stack' = <<>>
    /\ wstack' = <<>>
    /\ wcall' = <<package_name>>
    /\ pc' = "walk"
    /\ UNCHANGED <<caller, argVars, nodes, reverse_target, reverse_set,
                   exit_status, raised, revVars>>

\* -------------------------------- build_graph_from_test.dfs, 307..323
Entering(c) ==
    /\ pc = "walk"
    /\ wcall # <<>>
    /\ EnterCase(wcall[1], filter, path_stack, visited) = c

\* `if ignore_substr and ignore_substr in u: return`
DfsFiltered ==
    /\ Entering("filtered")
    /\ wcall' = <<>>
    /\ UNCHANGED <<pc, caller, argVars, mainVars, reverse_target, reverse_set,
                   exit_status, raised, visited, edges, cycles, path_stack,
                   wstack, revVars>>

\* `if u in path_stack:` record the cycle and return
DfsCycle ==
    /\ Entering("cycle")
    /\ cycles' = Append(cycles, CycleOf(path_stack, wcall[1]))
    /\ wcall' = <<>>
    /\ UNCHANGED <<pc, caller, argVars, mainVars, reverse_target, reverse_set,
                   exit_status, raised, visited, edges, path_stack, wstack,
                   revVars>>

\* `if u in visited: return`
DfsVisited ==
    /\ Entering("visited")
    /\ wcall' = <<>>
    /\ UNCHANGED <<pc, caller, argVars, mainVars, reverse_target, reverse_set,
                   exit_status, raised, visited, edges, cycles, path_stack,
                   wstack, revVars>>

\* visited.add(u); path_stack.append(u); the for loop over sorted deps starts
DfsExpand ==
    /\ Entering("expand")
    /\ visited' = visited \cup {wcall[1]}
    /\ path_stack' = Append(path_stack, wcall[1])
    /\ wstack' = Append(wstack, [u |-> wcall[1],
                                 todo |-> SortedSeq(Deps(test_graph, wcall[1]))])
    /\ wcall' = <<>>
    /\ UNCHANGED <<pc, caller, argVars, mainVars, reverse_target, reverse_set,
                   exit_status, raised, edges, cycles, revVars>>

InLoop ==
    /\ pc = "walk"
    /\ wcall = <<>>
    /\ wstack # <<>>

Top == wstack[Len(wstack)]

Advance(stk) ==
    [stk EXCEPT ![Len(stk)].todo = Tail(@)]

\* loop body, `if ignore_substr and ignore_substr in v: continue`
DfsLoopSkip ==
    /\ InLoop
    /\ Top.todo # <<>>
    /\ Matches(filter, Head(Top.todo))
    /\ wstack' = Advance(wstack)
    /\ UNCHANGED <<pc, caller, argVars, mainVars, reverse_target, reverse_set,
                   exit_status, raised, visited, edges, cycles, path_stack,
                   wcall, revVars>>

\* mutant: the dependency is marked visited where the edge is added
DfsFollowMarking ==
    /\ InLoop
    /\ Top.todo # <<>>
    /\ ~Matches(filter, Head(Top.todo))
    /\ edges' = edges \cup {<<Top.u, Head(Top.todo)>>}
    /\ visited' = visited \cup {Head(Top.todo)}
    /\ wcall' = <<Head(Top.todo)>>
    /\ wstack' = Advance(wstack)
    /\ UNCHANGED <<pc, caller, argVars, mainVars, reverse_target, reverse_set,
                   exit_status, raised, cycles, path_stack, revVars>>

\* mutant: no edge is added when the dependency was already visited
DfsFollowNewOnly ==
    /\ InLoop
    /\ Top.todo # <<>>
    /\ ~Matches(filter, Head(Top.todo))
    /\ edges' = IF Head(Top.todo) \in visited
                THEN edges
                ELSE edges \cup {<<Top.u, Head(Top.todo)>>}
    /\ wcall' = <<Head(Top.todo)>>
    /\ wstack' = Advance(wstack)
    /\ UNCHANGED <<pc, caller, argVars, mainVars, reverse_target, reverse_set,
                   exit_status, raised, visited, cycles, path_stack, revVars>>

\* loop body, edges.add((u, v)); dfs(v)
DfsFollow ==
    /\ InLoop
    /\ Top.todo # <<>>
    /\ ~Matches(filter, Head(Top.todo))
    /\ edges' = edges \cup {<<Top.u, Head(Top.todo)>>}
    /\ wcall' = <<Head(Top.todo)>>
    /\ wstack' = Advance(wstack)
    /\ UNCHANGED <<pc, caller, argVars, mainVars, reverse_target, reverse_set,
                   exit_status, raised, visited, cycles, path_stack, revVars>>

\* loop exhausted: path_stack.pop() and return to the caller's loop
\* (pop() of an empty list raises IndexError)
DfsPop ==
    /\ InLoop
    /\ Top.todo = <<>>
    /\ IF path_stack = <<>>
       THEN /\ ErrorExit("IndexError")
            /\ UNCHANGED <<path_stack, wstack>>
       ELSE /\ path_stack' = PopPath(path_stack)
            /\ wstack' = SubSeq(wstack, 1, Len(wstack) - 1)
            /\ UNCHANGED <<pc, exit_status, raised>>
    /\ UNCHANGED <<caller, argVars, mainVars, reverse_target, reverse_set,
                   visited, edges, cycles, wcall, revVars>>

\* dfs(start) has unwound: `return visited, edges, cycles`, bound in main
WalkReturn ==
    /\ pc = "walk"
    /\ wcall = <<>>
    /\ wstack = <<>>
    /\ nodes' = visited
    /\ bound' = bound \cup {"nodes", "edges", "cycles"}
    /\ pc' = "print"
    /\ UNCHANGED <<caller, argVars, test_graph, start, nodes_all, edges_all,
                   reverse_target, reverse_set, exit_status, raised,
                   walkVars, revVars>>

\* ------------------------------------------------- main, lines 489..510
\* print_graph_result(start, nodes, edges, cycles, ...) names locals that
\* were never assigned: NameError, caught at module level, error() exits 2
PrintNameError ==
    /\ pc = "print"
    /\ ~({"start", "nodes", "edges", "cycles"} \subseteq bound)
    /\ ErrorExit("NameError")
    /\ UNCHANGED <<caller, argVars, mainVars, reverse_target, reverse_set,
                   walkVars, revVars>>

\* the result is printed and rendered, no --reverse was given: return 0
ReportOnly ==
    /\ pc = "print"
    /\ {"start", "nodes", "edges", "cycles"} \subseteq bound
    /\ reverse_target' = EmptyStr
    /\ pc' = "exit"
    /\ exit_status' = 0
    /\ UNCHANGED <<caller, argVars, mainVars, reverse_set, raised,
                   walkVars, revVars>>

\* entry of find_reverse_dependencies(target, edges, extra_nodes):
\* reverse_graph is built, visited is empty, dfs(target) is entered
EnterReverse(t, E, extra, who) ==
    /\ caller' = who
    /\ r_target' = t
    /\ r_edges' = E
    /\ r_extra' = extra
    /\ reverse_graph' = ReverseGraph(E, extra)
    /\ rvisited' = {}
    /\ rstack' = <<[u |-> t,
                    todo |-> SortedSeq(Deps(ReverseGraph(E, extra), t))]>>
    /\ pc' = "reverse"

\* `source_edges = edges_all if args.test_file else edges`
SourceEdges(tf, ea, e) == IF tf THEN ea ELSE e

\* `extra_nodes = (nodes_all if args.test_file else None)`
ExtraNodes(tf, na) == IF tf THEN na ELSE {}

\* the result is printed and rendered, --reverse T was given
ReportAndReverse ==
    /\ pc = "print"
    /\ {"start", "nodes", "edges", "cycles"} \subseteq bound
    /\ \E t \in Nodes :
          /\ reverse_target' = t
          /\ EnterReverse(t, SourceEdges(test_file, edges_all, edges),
                          ExtraNodes(test_file, nodes_all), "main")
    /\ UNCHANGED <<argVars, mainVars, reverse_set, exit_status, raised,
                   walkVars>>

\* find_reverse_dependencies called on its own
CallReverse ==
    /\ pc = "idle"
    /\ \E t \in Nodes, E \in EdgeSets, extra \in SUBSET Nodes :
          EnterReverse(t, E, extra, "direct")
    /\ UNCHANGED <<argVars, mainVars, reverse_target, reverse_set,
                   exit_status, raised, walkVars>>

\* ----------------------- find_reverse_dependencies.dfs, lines 382..387
InRevLoop ==
    /\ pc = "reverse"
    /\ rstack # <<>>

RTop == rstack[Len(rstack)]

\* `if v in visited: continue`
RevSeen ==
    /\ InRevLoop
    /\ RTop.todo # <<>>
    /\ Head(RTop.todo) \in rvisited
    /\ rstack' = Advance(rstack)
    /\ UNCHANGED <<pc, caller, argVars, mainVars, reverse_target, reverse_set,
                   exit_status, raised, walkVars, r_target, r_edges, r_extra,
                   reverse_graph, rvisited>>

\* visited.add(v); dfs(v)
RevVisit ==
    /\ InRevLoop
    /\ RTop.todo # <<>>
    /\ Head(RTop.todo) \notin rvisited
    /\ rvisited' = rvisited \cup {Head(RTop.todo)}
    /\ rstack' = Append(Advance(rstack),
                        [u |-> Head(RTop.todo),
                         todo |-> SortedSeq(Deps(reverse_graph, Head(RTop.todo)))])
    /\ UNCHANGED <<pc, caller, argVars, mainVars, reverse_target, reverse_set,
                   exit_status, raised, walkVars, r_target, r_edges, r_extra,
                   reverse_graph>>

\* the for loop of one dfs call is exhausted
RevPop ==
    /\ InRevLoop
    /\ RTop.todo = <<>>
    /\ rstack' = SubSeq(rstack, 1, Len(rstack) - 1)
    /\ UNCHANGED <<pc, caller, argVars, mainVars, reverse_target, reverse_set,
                   exit_status, raised, walkVars, r_target, r_edges, r_extra,
                   reverse_graph, rvisited>>

\* visited.discard(target); return visited.  In main the set is printed
\* and main returns 0.
RevReturn ==
    /\ pc = "reverse"
    /\ rstack = <<>>
    /\ reverse_set' = Discard(rvisited, r_target)
    /\ IF caller = "main"
       THEN pc' = "exit" /\ exit_status' = 0
       ELSE pc' = "returned" /\ UNCHANGED exit_status
    /\ UNCHANGED <<caller, argVars, mainVars, reverse_target, raised,
                   walkVars, revVars>>

Next ==
    \/ MainNoSource
    \/ MainTestFile
    \/ MainRepoOnly
    \/ LoadFail
    \/ LoadTestGraph
    \/ DfsFiltered
    \/ DfsCycle
    \/ DfsVisited
    \/ DfsExpand
    \/ DfsLoopSkip
    \/ DfsFollow
    \/ DfsPop
    \/ WalkReturn
    \/ PrintNameError
    \/ ReportOnly
    \/ ReportAndReverse
    \/ CallReverse
    \/ RevSeen
    \/ RevVisit
    \/ RevPop
    \/ RevReturn

Spec == Init /\ [][Next]_vars

\* every step is a step of one sequential program: it is taken when enabled
FairSpec == Spec /\ WF_vars(Next)

TypeOK ==
    /\ pc \in {"idle", "load", "walk", "print", "reverse", "exit", "returned"}
    /\ visited \subseteq Nodes
    /\ edges \subseteq Nodes \X Nodes
    /\ reverse_set \subseteq Nodes
    /\ exit_status \in {-1, 0, 2}

\* ================================================================ claims
\* graph-theoretic vocabulary of the claims, independent of the traversal
GraphEdges(g) ==
    {e \in Nodes \X Nodes : e[1] \in DOMAIN g /\ e[2] \in g[e[1]]}

Succ(S, E) == {e[2] : e \in {x \in E : x[1] \in S}}

RECURSIVE Closure(_, _)
\* the nodes reachable from S by zero or more edges of E
Closure(S, E) ==
    IF Succ(S, E) \subseteq S THEN S ELSE Closure(S \cup Succ(S, E), E)

\* a path of one or more edges of E leads from x to t
HasPath(x, t, E) == t \in Closure(Succ({x}, E), E)

Acyclic(E) == \A n \in Nodes : ~HasPath(n, n, E)

\* the nodes other than t from which t can be reached
Dependents(t, E) == {x \in Nodes : x # t /\ HasPath(x, t, E)}

Unfiltered(n) == filter = EmptyStr \/ ~Contains(filter, n)

\* the edges of the loaded graph between nodes the filter lets through
UnfilteredEdges ==
    {e \in GraphEdges(test_graph) : Unfiltered(e[1]) /\ Unfiltered(e[2])}

\* build_graph_from_test has returned to main
Walked == "nodes" \in bound

\* find_reverse_dependencies has returned
RevReturned == caller # "" /\ pc \in {"returned", "exit"}

CycleNodes == UNION {{cycles[i][j] : j \in 1..Len(cycles[i])} : i \in 1..Len(cycles)}

\* C1: on an acyclic adjacency map, with an empty filter, the walk returns
\* exactly the nodes reachable from start (start included) and no cycle.
C1_AcyclicReach ==
    (Walked /\ filter = EmptyStr /\ Acyclic(GraphEdges(test_graph)))
        => /\ nodes = Closure({start}, GraphEdges(test_graph))
           /\ cycles = <<>>

\* an acyclic three-node graph in which a node is reached by two paths
C1_Witness ==
    /\ Walked /\ filter = EmptyStr /\ Acyclic(GraphEdges(test_graph))
    /\ nodes = Nodes
    /\ Cardinality(GraphEdges(test_graph)) = 3

\* C2: with a non-empty filter s, no visited node, no endpoint of an edge
\* and no node of a recorded cycle contains s; a start that contains s
\* gives the empty result.
C2_FilterExcludes ==
    (Walked /\ filter # EmptyStr)
        => /\ \A n \in nodes \cup CycleNodes : ~Contains(filter, n)
           /\ \A e \in edges : ~Contains(filter, e[1]) /\ ~Contains(filter, e[2])
           /\ Contains(filter, start)
                 => (nodes = {} /\ edges = {} /\ cycles = <<>>)

\* a visited node depends on a node the filter matches other than at its
\* beginning, and a cycle was recorded among the nodes that remain
C2_Witness ==
    /\ Walked /\ filter # EmptyStr
    /\ cycles # <<>>
    /\ \E n \in nodes : \E v \in Deps(test_graph, n) :
          Contains(filter, v) /\ SubSeq(v, 1, Len(filter)) # filter

\* C3 as stated: every edge (a,b), a = b included, has a in
\* reverseReachable(b, edges).  Refuted by a self-loop on the target.
C3_Original ==
    RevReturned
        => /\ \A e \in r_edges : e[2] = r_target => e[1] \in reverse_set
           /\ (~\E e \in r_edges : e[2] = r_target) => reverse_set = {}

\* C3, amended: for every edge (a,b) with a # b, a is in
\* reverseReachable(b, edges); a node without incoming edges has an empty
\* result.
C3_RoundTrip ==
    RevReturned
        => /\ \A e \in r_edges :
                (e[2] = r_target /\ e[1] # e[2]) => e[1] \in reverse_set
           /\ (~\E e \in r_edges : e[2] = r_target) => reverse_set = {}

\* the target has a self-loop and another direct dependent that lies on a
\* cycle with it
C3_Witness ==
    /\ RevReturned
    /\ <<r_target, r_target>> \in r_edges
    /\ \E a \in Nodes \ {r_target} :
          <<a, r_target>> \in r_edges /\ HasPath(r_target, a, r_edges)

\* C4: find_reverse_dependencies returns exactly the nodes x # target from
\* which a path of one or more edges leads to target, whatever extra_nodes.
C4_ExactDependents ==
    RevReturned => reverse_set = Dependents(r_target, r_edges)

\* the target lies on a cycle with a dependent, and extra_nodes names a
\* node that no edge mentions
C4_Witness ==
    /\ RevReturned
    /\ HasPath(r_target, r_target, r_edges)
    /\ reverse_set # {}
    /\ \E n \in r_extra : \A e \in r_edges : e[1] # n /\ e[2] # n

CycleAB == (A :> {B}) @@ (B :> {A})

C5_Case ==
    Walked /\ test_graph = CycleAB /\ start = A /\ filter = EmptyStr

\* C5 as stated: for A -> {B}, B -> {A} from A the result is nodes {A,B},
\* edges {(A,B)}, cycles [[A,B,A]].  Refuted: the closing edge is returned.
C5_Original ==
    C5_Case => /\ nodes = {A, B}
               /\ edges = {<<A, B>>}
               /\ cycles = << <<A, B, A>> >>

\* C5, amended: the result is nodes {A,B}, edges {(A,B),(B,A)},
\* cycles [[A,B,A]]; the edge that closes the cycle is in the edge set.
C5_TwoNodeCycle ==
    C5_Case => /\ nodes = {A, B}
               /\ edges = {<<A, B>>, <<B, A>>}
               /\ cycles = << <<A, B, A>> >>

C5_Witness ==
    C5_Case /\ pc = "exit" /\ exit_status = 0

\* main has reported the reverse dependencies of a test-file run
MainReversed == pc = "exit" /\ caller = "main" /\ test_file

\* C6 as stated: the reported set is reverseReachable(T, E) for the edge
\* set E of the walk, so every reported node was visited.  Refuted.
C6_Original ==
    MainReversed
        => /\ reverse_set = Dependents(reverse_target, edges)
           /\ reverse_set \subseteq nodes

\* C6, amended: the reported set is reverseReachable(T, E_all) where E_all
\* is every edge of the loaded file whose two ends pass the filter; it
\* contains the set computed from the walk's edges, and may hold nodes the
\* walk never visited.
C6_ReverseOverWholeFile ==
    MainReversed
        => /\ reverse_set = Dependents(reverse_target, UnfilteredEdges)
           /\ Dependents(reverse_target, edges) \subseteq reverse_set

\* a reported node that the walk from start did not visit
C6_Witness ==
    /\ MainReversed
    /\ ~(reverse_set \subseteq nodes)
    /\ filter # EmptyStr

CycleReachable ==
    /\ Unfiltered(start)
    /\ \E n \in Closure({start}, UnfilteredEdges) : HasPath(n, n, UnfilteredEdges)

\* C8: when a cycle through unfiltered nodes is reachable from start the
\* walk records at least one cycle; every recorded cycle has at least two
\* elements, the first equal to the last.
C8_CycleFound ==
    Walked
        => /\ CycleReachable => Len(cycles) >= 1
           /\ \A i \in 1..Len(cycles) :
                 Len(cycles[i]) >= 2 /\ cycles[i][1] = cycles[i][Len(cycles[i])]

\* the cycle does not pass through start, and a node of it is reached a
\* second time after it was popped
C8_Witness ==
    /\ Walked /\ CycleReachable
    /\ ~HasPath(start, start, UnfilteredEdges)
    /\ Cardinality({e \in edges : e[1] = start}) = 2
    /\ Len(cycles) >= 1

\* C9: a run with --repo and no test file exits with status 0 and reports
\* the root with its unfiltered direct dependencies, one edge to each.
C9_RepoRunReports ==
    (pc = "exit" /\ repo /\ ~test_file)
        => /\ exit_status = 0
           /\ Unfiltered(package_name)
                 => /\ nodes = {package_name} \cup {d \in repo_deps : Unfiltered(d)}
                    /\ edges = {<<package_name, d>> : d \in {x \in repo_deps : Unfiltered(x)}}

\* C10: at every moment each recorded cycle is a closed path of the edge
\* set over visited nodes, without a repeated node other than its ends,
\* and no sequence is recorded twice.
C10_CyclesAreClosedPaths ==
    /\ \A i \in 1..Len(cycles) :
          LET c == cycles[i] IN
          /\ Len(c) >= 2
          /\ c[1] = c[Len(c)]
          /\ \A j \in 1..(Len(c) - 1) : <<c[j], c[j + 1]>> \in edges
          /\ \A j \in 1..Len(c) : c[j] \in visited
          /\ \A j, k \in 1..(Len(c) - 1) : j # k => c[j] # c[k]
    /\ \A i, k \in 1..Len(cycles) : i # k => cycles[i] # cycles[k]

\* two cycles were recorded, one of them through all three nodes
C10_Witness ==
    /\ Walked
    /\ Len(cycles) >= 2
    /\ \E i \in 1..Len(cycles) : Len(cycles[i]) = 4

\* the edges out of visited nodes to dependencies the filter lets through
ExpectedEdges ==
    {e \in Nodes \X Nodes :
        e[1] \in nodes /\ e[2] \in Deps(test_graph, e[1]) /\ Unfiltered(e[2])}

\* a step that starts the expansion of a node (a dfs frame is pushed)
ExpandStep == Len(wstack') > Len(wstack)

\* C11: when the walk returns the edge set is exactly the set of (u,v) with
\* u visited, v a dependency of u and v not matching the filter, with both
\* ends visited; a node is expanded when and only when it becomes visited,
\* and never while it is already visited, so each is expanded exactly once
\* and an arrival at a visited node still leaves its arriving edge.
C11_EdgeSetExact ==
    /\ [](Walked => /\ edges = ExpectedEdges
                    /\ \A e \in edges : e[1] \in nodes /\ e[2] \in nodes)
    /\ [][/\ visited \subseteq visited'
          /\ ExpandStep <=> visited' # visited
          /\ ExpandStep =>
                /\ wstack'[Len(wstack')].u \notin visited
                /\ visited' = visited \cup {wstack'[Len(wstack')].u}]_vars

\* without any cycle, a node was reached by two paths and both arriving
\* edges are in the result
C11_Witness ==
    /\ Walked
    /\ cycles = <<>>
    /\ \E v \in nodes : Cardinality({e \in edges : e[2] = v}) >= 2

====
